---- MODULE Spec2Model ----
(***************************************************************************)
(* Model of src/agent/main.py: the FastAPI service that lets a language    *)
(* model call four Docker/file tools (POST /chat), stores uploaded files   *)
(* in a shared directory (POST /files/upload, GET /files/{filename},       *)
(* GET /files) and notifies an n8n webhook.                                *)
(*                                                                         *)
(* The container runtime, the model backend and the webhook receiver are   *)
(* the environment: each of their answers is a nondeterministic choice     *)
(* made in the step of the handler that calls them.  A handler is split    *)
(* at its calls to the outside (model call, runtime call, open, read of    *)
(* the request body, write, webhook POST, return).                         *)
(***************************************************************************)
EXTENDS Integers, Sequences, FiniteSets, TLC

\* ------------------------------------------------------------------ bounds
\* Longest request body of an upload, in bytes.
MaxLen == 2
\* Most tool calls in one model reply.
MaxCalls == 2

Bytes == {1, 2}
\* Request bodies: runs of one byte value, the empty body included.
Contents == {[i \in 1..k |-> x] : k \in 0..MaxLen, x \in Bytes}
\* The entries the shared directory may hold.
Names == {"a", "b"}
\* The file names a client may send: plain ones, one with a "." component
\* and one that climbs out of the shared directory.
FileNames == Names \cup {"./b", "../x"}
\* Every file a request can reach: the entries of the shared directory and
\* /app/x beside it.
Paths == Names \cup {"../x"}
UploadProcs == {"u1", "u2"}
\* Names a model reply may pass as container_name; only "web" exists.
ContainerNames == {"web", "db"}
Existing == {"web"}
Missing == "<no container_name>"
Statuses == {"running", "exited"}
\* What the container runtime does with a call: answer, or raise.
Runtime == {"up", "down"}

\* ------------------------------------------------------------------- state
VARIABLES
    containers,  \* the runtime's containers: name -> status
    files,       \* the file system: path -> [exists, data]
    uploaded,    \* history: the paths some upload has opened
    settled,     \* history: per path, the latest upload that finished with no
                 \*   other upload of the path overlapping it: [ok, given, body]
    upl,         \* the upload handlers: proc -> [pc, name, body, alone, hook, status]
    obs,         \* the response of the latest GET /files/{filename} or GET /files
    cpc,         \* the chat handler's position
    calls,       \* response["message"]["tool_calls"] of the first model reply
    results,     \* the list `results` built by the loop
    final,       \* final_response, the second model reply ("" before it)
    chatHook,    \* the notification the chat handler posted, if any
    chatResp,    \* the HTTP response of the chat request
    modelCalls,  \* history: ollama.chat calls made by this request
    failedAt,    \* history: the place the request's exception was raised
    snap         \* history: the containers when the request began

fileVars == <<files, uploaded, settled, upl, obs>>
chatVars == <<containers, cpc, calls, results, final, chatHook, chatResp,
              modelCalls, failedAt, snap>>
vars == <<containers, files, uploaded, settled, upl, obs, cpc, calls, results,
          final, chatHook, chatResp, modelCalls, failedAt, snap>>

\* ------------------------------------------------------- container tools
\* A tool's return value.  kind is the text of a string result ("avviato",
\* "fermato", "Errore", "Funzione non trovata") or names a listing.
Text(kind, name) == [kind |-> kind, name |-> name, list |-> {}]
Listing(kind, entries) == [kind |-> kind, name |-> "", list |-> entries]
NoResult == Text("", "")

Outcome(raised, result, cs) ==
    [raised |-> raised, result |-> result, containers |-> cs]
Raised(cs) == Outcome(TRUE, NoResult, cs)

\* list_containers(): every container, running or not.  A runtime error is
\* not caught here.
list_containers(rt, cs) ==
    IF rt = "up"
    THEN Outcome(FALSE, Listing("containers", {<<c, cs[c]>> : c \in DOMAIN cs}), cs)
    ELSE Raised(cs)

\* The same without the try/except: the lookup's error leaves the function.
StartContainerRaising(name, rt, cs) ==
    IF name \in DOMAIN cs /\ rt = "up"
    THEN Outcome(FALSE, Text("avviato", name), [cs EXCEPT ![name] = "running"])
    ELSE Raised(cs)

\* start_container(name): get, start; any exception becomes "Errore: ...".
start_container(name, rt, cs) ==
    IF name \in DOMAIN cs /\ rt = "up"
    THEN Outcome(FALSE, Text("avviato", name), [cs EXCEPT ![name] = "running"])
    ELSE Outcome(FALSE, Text("Errore", name), cs)

\* stop_container(name): get, stop; any exception becomes "Errore: ...".
stop_container(name, rt, cs) ==
    IF name \in DOMAIN cs /\ rt = "up"
    THEN Outcome(FALSE, Text("fermato", name), [cs EXCEPT ![name] = "exited"])
    ELSE Outcome(FALSE, Text("Errore", name), cs)

\* list_shared_files(): the names of the regular files of the directory.
list_shared_files(fs) ==
    Listing("files", {<<n>> : n \in {m \in Names : fs[m].exists}})

\* ------------------------------------------------------------- tool calls
Registry == {"list_containers", "start_container", "stop_container",
             "list_shared_files"}
Call(name, arg) == [name |-> name, arg |-> arg]
\* The tool calls a model reply may hold: the four registered names, with
\* container_name present or absent where it is read, and an unknown name.
ToolCalls ==
    {Call(f, Missing) : f \in {"list_containers", "list_shared_files", "bogus"}}
    \cup {Call(f, a) : f \in {"start_container", "stop_container"},
                       a \in ContainerNames \cup {Missing}}
CallLists == UNION {[1..k -> ToolCalls] : k \in 0..MaxCalls}

\* The same with an unknown name raising instead of yielding the literal.
DispatchStrict(call, rt, cs, fs) ==
    CASE call.name = "list_containers" -> list_containers(rt, cs)
      [] call.name = "start_container" ->
            IF call.arg = Missing THEN Raised(cs)
            ELSE start_container(call.arg, rt, cs)
      [] call.name = "stop_container" ->
            IF call.arg = Missing THEN Raised(cs)
            ELSE stop_container(call.arg, rt, cs)
      [] call.name = "list_shared_files" ->
            Outcome(FALSE, list_shared_files(fs), cs)
      [] OTHER -> Raised(cs)

\* The if/elif chain of the loop body.  args["container_name"] raises
\* KeyError when the model left the argument out.
Dispatch(call, rt, cs, fs) ==
    CASE call.name = "list_containers" -> list_containers(rt, cs)
      [] call.name = "start_container" ->
            IF call.arg = Missing THEN Raised(cs)
            ELSE start_container(call.arg, rt, cs)
      [] call.name = "stop_container" ->
            IF call.arg = Missing THEN Raised(cs)
            ELSE stop_container(call.arg, rt, cs)
      [] call.name = "list_shared_files" ->
            Outcome(FALSE, list_shared_files(fs), cs)
      [] OTHER -> Outcome(FALSE, Text("Funzione non trovata", ""), cs)

\* A loop that skips a call it has already answered.
CollectDedup(rs, fname, result) ==
    IF \E j \in 1..Len(rs) : rs[j].function = fname
    THEN rs
    ELSE Append(rs, [function |-> fname, result |-> result])

\* results.append({"function": func_name, "result": result})
Collect(rs, fname, result) ==
    Append(rs, [function |-> fname, result |-> result])

\* --------------------------------------------------------- HTTP responses
Response(status, keys, content, rs) ==
    [status |-> status, keys |-> keys, response |-> content, tool_results |-> rs]
NoResp == Response(0, {}, "", <<>>)

\* A direct answer that also carries an (empty) tool_results key.
DirectResponseWithKey(content) ==
    Response(200, {"response", "tool_results"}, content, <<>>)

\* return {"response": response["message"]["content"]}
DirectResponse(content) == Response(200, {"response"}, content, <<>>)

\* A failure that hands the results computed so far to the caller.
FailureResponseLeaking(rs) == Response(500, {"detail", "tool_results"}, "", rs)

\* raise HTTPException(status_code=500, detail=str(e))
FailureResponse(rs) == Response(500, {"detail"}, "", <<>>)

\* return {"response": final_response["message"]["content"], "tool_results": results}
\* A second reply without message.content raises here.
Malformed == "<no content>"
\* The second reply: an answer, an answer that again asks for tools (which
\* nothing reads), or a reply without message.content.
FinalReplies == {"answer", "answer with tool_calls", Malformed}
ToolResponse(fin, rs) ==
    IF fin = Malformed
    THEN FailureResponse(rs)
    ELSE Response(200, {"response", "tool_results"}, fin, rs)

\* An outer handler that lets the notifier's exception through.
NotifyRaisesUnguarded(outcome) == outcome = "fail"

\* try: requests.post(...) except: pass -- nothing leaves the notifier.
NotifyRaises(outcome) == FALSE

\* A handler that always takes the tool-assisted path.
HasToolCallsAlways(cl) == TRUE

\* if response["message"].get("tool_calls"): an empty list is falsy.
HasToolCalls(cl) == cl # <<>>

NoHook == [outcome |-> "none", results |-> <<>>]

\* ------------------------------------------------------------ POST /chat
\* The first ollama.chat call, and the direct return when no tool is asked.
ChatModel1 ==
    /\ cpc = "idle"
    /\ results' = <<>>
    /\ final' = ""
    /\ chatHook' = NoHook
    /\ modelCalls' = 1
    /\ snap' = containers
    /\ \/ /\ calls' = <<>>
          /\ failedAt' = "model1"
          /\ chatResp' = FailureResponse(<<>>)
          /\ cpc' = "done"
       \/ \E cl \in CallLists :
            /\ calls' = cl
            /\ failedAt' = "none"
            /\ IF HasToolCalls(cl)
               THEN /\ chatResp' = NoResp
                    /\ cpc' = IF Len(cl) = 0 THEN "model2" ELSE "dispatch"
               ELSE /\ chatResp' = DirectResponse("answer")
                    /\ cpc' = "done"
    /\ UNCHANGED <<containers, fileVars>>

\* One iteration of the for loop: the call at position Len(results) + 1.
ChatDispatch ==
    /\ cpc = "dispatch"
    /\ \E rt \in Runtime :
         LET i == Len(results) + 1
             out == Dispatch(calls[i], rt, containers, files)
         IN  /\ containers' = out.containers
             /\ IF out.raised
                THEN /\ failedAt' = "dispatch"
                     /\ chatResp' = FailureResponse(results)
                     /\ cpc' = "done"
                     /\ UNCHANGED results
                ELSE /\ results' = Collect(results, calls[i].name, out.result)
                     /\ cpc' = IF i = Len(calls) THEN "model2" ELSE "dispatch"
                     /\ UNCHANGED <<failedAt, chatResp>>
    /\ UNCHANGED <<calls, final, chatHook, modelCalls, snap, fileVars>>

\* json.dumps(results) and the second ollama.chat call.  The results are
\* strings and lists of strings, which json.dumps always serialises.
ChatModel2 ==
    /\ cpc = "model2"
    /\ modelCalls' = modelCalls + 1
    /\ \/ /\ failedAt' = "model2"
          /\ chatResp' = FailureResponse(results)
          /\ cpc' = "done"
          /\ UNCHANGED final
       \/ \E fin \in FinalReplies :
            /\ final' = fin
            /\ cpc' = "notify"
            /\ UNCHANGED <<failedAt, chatResp>>
    /\ UNCHANGED <<containers, calls, results, chatHook, snap, fileVars>>

\* requests.post(.../webhook/agent-action, ...), delivered or not.
ChatNotify ==
    /\ cpc = "notify"
    /\ \E o \in {"ok", "fail"} :
         /\ chatHook' = [outcome |-> o, results |-> results]
         /\ IF NotifyRaises(o)
            THEN /\ failedAt' = "notify"
                 /\ chatResp' = FailureResponse(results)
                 /\ cpc' = "done"
            ELSE /\ cpc' = "compose"
                 /\ UNCHANGED <<failedAt, chatResp>>
    /\ UNCHANGED <<containers, calls, results, final, modelCalls, snap, fileVars>>

\* The return statement of the tool-assisted path.
ChatCompose ==
    /\ cpc = "compose"
    /\ chatResp' = ToolResponse(final, results)
    /\ failedAt' = IF final = Malformed THEN "compose" ELSE "none"
    /\ cpc' = "done"
    /\ UNCHANGED <<containers, calls, results, final, chatHook, modelCalls, snap,
                   fileVars>>

\* The response has gone to the caller and the handler's locals are gone.
ChatEnd ==
    /\ cpc = "done"
    /\ cpc' = "idle"
    /\ calls' = <<>>
    /\ results' = <<>>
    /\ final' = ""
    /\ chatHook' = NoHook
    /\ chatResp' = NoResp
    /\ modelCalls' = 0
    /\ failedAt' = "none"
    /\ snap' = containers
    /\ UNCHANGED <<containers, fileVars>>

\* ----------------------------------------------------- the shared directory
NoFile == [exists |-> FALSE, data |-> <<>>]

\* file_path = SHARED_DIR / filename: the file the joined path denotes.
\* "./b" is the entry "b"; "../x" is /app/x, outside the directory.
Resolve(n) == IF n = "./b" THEN "b" ELSE n

\* @app.get("/files/{filename}"): the path parameter matches one segment,
\* so a name with a "/" reaches no handler and the router answers 404.
Routable(n) == n \in Names

\* open(file_path, "wb"): create the file, or truncate it to no bytes.
OpenTruncate(fs, n) == [fs EXCEPT ![n] = [exists |-> TRUE, data |-> <<>>]]

\* f.write(content) through a descriptor opened at offset 0: the bytes
\* replace the first Len(b) bytes of the file and leave the rest.
WriteAt(old, b) ==
    IF Len(old) > Len(b) THEN b \o SubSeq(old, Len(b) + 1, Len(old)) ELSE b

\* A lookup that takes every name to exist.
ExistsAlways(fs, n) == TRUE

\* file_path.exists()
Exists(fs, n) == fs[Resolve(n)].exists

IdleUpload ==
    [pc |-> "idle", name |-> "", body |-> <<>>, alone |-> FALSE,
     hook |-> "none", status |-> 0]
Writing(u, n) == u.pc \in {"opened", "read"} /\ Resolve(u.name) = Resolve(n)
NoUpload == [ok |-> FALSE, given |-> "", body |-> <<>>]

\* -------------------------------------------------- POST /files/upload
\* with open(file_path, "wb") as f: for a request naming n with body b.
UploadOpen(p, n, b) ==
    /\ upl[p].pc \in {"idle", "done"}
    /\ files' = OpenTruncate(files, Resolve(n))
    /\ uploaded' = uploaded \cup {Resolve(n)}
    /\ settled' = [settled EXCEPT ![Resolve(n)] = NoUpload]
    /\ upl' = [q \in UploadProcs |->
                 IF q = p
                 THEN [pc |-> "opened", name |-> n, body |-> b,
                       alone |-> \A r \in UploadProcs \ {p} : ~Writing(upl[r], n),
                       hook |-> "none", status |-> 0]
                 ELSE IF Writing(upl[q], n)
                      THEN [upl[q] EXCEPT !.alone = FALSE]
                      ELSE upl[q]]
    /\ UNCHANGED <<obs, chatVars>>

\* content = await file.read()
UploadRead(p) ==
    /\ upl[p].pc = "opened"
    /\ upl' = [upl EXCEPT ![p].pc = "read"]
    /\ UNCHANGED <<files, uploaded, settled, obs, chatVars>>

\* f.write(content) and the close of the with block; an OSError leaves a
\* prefix of the body written and skips the notification.
UploadWrite(p) ==
    /\ upl[p].pc = "read"
    /\ LET n == Resolve(upl[p].name)
           b == upl[p].body
       IN  \/ /\ files' = [files EXCEPT ![n].data = WriteAt(@, b)]
              /\ settled' = [settled EXCEPT
                               ![n] = IF upl[p].alone
                                      THEN [ok |-> TRUE, given |-> upl[p].name,
                                            body |-> b]
                                      ELSE NoUpload]
              /\ upl' = [upl EXCEPT ![p].pc = "written"]
           \/ \E k \in 0..Len(b) :
                /\ files' = [files EXCEPT ![n].data = WriteAt(@, SubSeq(b, 1, k))]
                /\ upl' = [upl EXCEPT ![p] = [IdleUpload EXCEPT !.pc = "done",
                                                           !.status = 500]]
                /\ UNCHANGED settled
    /\ UNCHANGED <<uploaded, obs, chatVars>>

\* requests.post(.../webhook/file-uploaded, ...), delivered or not, and
\* return {"message": ..., "path": ...}.
UploadNotify(p) ==
    /\ upl[p].pc = "written"
    /\ \E o \in {"ok", "fail"} :
         upl' = [upl EXCEPT
                   ![p] = [IdleUpload EXCEPT
                             !.pc = "done", !.hook = o,
                             !.status = IF NotifyRaises(o) THEN 500 ELSE 200]]
    /\ UNCHANGED <<files, uploaded, settled, obs, chatVars>>

\* -------------------------------------- GET /files/{filename}, GET /files
DownloadResponse(fs, n) ==
    IF Routable(n) /\ Exists(fs, n)
    THEN [kind |-> "download", name |-> n, status |-> 200,
          body |-> fs[Resolve(n)].data, entries |-> {}]
    ELSE [kind |-> "download", name |-> n, status |-> 404, body |-> <<>>,
          entries |-> {}]

download_file(n) ==
    /\ obs' = DownloadResponse(files, n)
    /\ UNCHANGED <<files, uploaded, settled, upl, chatVars>>

list_files ==
    /\ obs' = [kind |-> "list", name |-> "", status |-> 200, body |-> <<>>,
               entries |-> {<<n, Len(files[n].data)>> :
                              n \in {m \in Names : files[m].exists}}]
    /\ UNCHANGED <<files, uploaded, settled, upl, chatVars>>

NoObs == [kind |-> "none", name |-> "", status |-> 0, body |-> <<>>, entries |-> {}]

\* ------------------------------------------------------- specifications
Init ==
    /\ containers \in [Existing -> Statuses]
    /\ files = [n \in Paths |-> NoFile]
    /\ uploaded = {}
    /\ settled = [n \in Paths |-> NoUpload]
    /\ upl = [p \in UploadProcs |-> IdleUpload]
    /\ obs = NoObs
    /\ cpc = "idle"
    /\ calls = <<>>
    /\ results = <<>>
    /\ final = ""
    /\ chatHook = NoHook
    /\ chatResp = NoResp
    /\ modelCalls = 0
    /\ failedAt = "none"
    /\ snap = containers

\* Uploads only, two at a time, to any entry of the directory.
RaceNext ==
    \/ \E p \in UploadProcs, n \in Names, b \in Contents : UploadOpen(p, n, b)
    \/ \E p \in UploadProcs : UploadRead(p)
    \/ \E p \in UploadProcs : UploadWrite(p)
    \/ \E p \in UploadProcs : UploadNotify(p)

\* The file endpoints: one client uploads bodies of byte 1 under any name,
\* one request after another, and a reader downloads and lists.
OneBodies == {c \in Contents : \A i \in 1..Len(c) : c[i] = 1}
StoreNext ==
    \/ \E n \in FileNames, b \in OneBodies : UploadOpen("u1", n, b)
    \/ UploadRead("u1")
    \/ UploadWrite("u1")
    \/ UploadNotify("u1")
    \/ \E n \in FileNames : download_file(n)
    \/ list_files

\* The chat endpoint, beside one client uploading one-byte files.
ChatNext ==
    \/ ChatModel1
    \/ ChatDispatch
    \/ ChatModel2
    \/ ChatNotify
    \/ ChatCompose
    \/ ChatEnd
    \/ UploadOpen("u1", "a", <<1>>)
    \/ UploadRead("u1")
    \/ UploadWrite("u1")
    \/ UploadNotify("u1")

Next == RaceNext \/ StoreNext \/ ChatNext

RaceSpec == Init /\ [][RaceNext]_vars
StoreSpec == Init /\ [][StoreNext]_vars
ChatSpec == Init /\ [][ChatNext]_vars
Spec == Init /\ [][Next]_vars

\* ------------------------------------------------------------- properties
\* The chat request has left the loop with every call answered.
LoopDone ==
    \/ cpc \in {"model2", "notify", "compose"}
    \/ cpc = "done" /\ failedAt \in {"none", "model2", "compose"} /\ calls # <<>>
\* The chat request returned without an exception.
Returned == cpc = "done" /\ failedAt = "none"
Unknown(call) ==
    /\ call.name \in {"start_container", "stop_container"}
    /\ call.arg \in ContainerNames \ Existing
Entry(fname, result) == [function |-> fname, result |-> result]

\* What a sequential execution allows as the answer to `call` in runtime
\* state cs, and the runtime state it leaves.
Allowed(call, r, cs) ==
    CASE call.name = "list_containers" ->
            r = Listing("containers", {<<c, cs[c]>> : c \in DOMAIN cs})
      [] call.name \in {"start_container", "stop_container"} ->
            \/ r = Text("Errore", call.arg)
            \/ /\ call.arg \in DOMAIN cs
               /\ r = Text(IF call.name = "start_container" THEN "avviato"
                           ELSE "fermato", call.arg)
      [] call.name = "list_shared_files" -> r.kind = "files"
      [] OTHER -> r = Text("Funzione non trovata", "")
Left(r, cs) ==
    CASE r.kind = "avviato" -> [cs EXCEPT ![r.name] = "running"]
      [] r.kind = "fermato" -> [cs EXCEPT ![r.name] = "exited"]
      [] OTHER -> cs
\* The results from position i on are those of executing the calls one
\* after another from runtime state cs, and the runtime is now in the
\* state the last of them left.
RECURSIVE Replay(_, _)
Replay(i, cs) ==
    IF i > Len(results)
    THEN cs = containers
    ELSE /\ results[i].function = calls[i].name
         /\ Allowed(calls[i], results[i].result, cs)
         /\ Replay(i + 1, Left(results[i].result, cs))

\* C1: a chat request that returns without an exception answers with
\* `response` and no tool_results key when the first reply holds no tool
\* call, and with tool_results of length 1 naming the function when the
\* first reply asks for exactly one registered function.
C1_ResponseShape ==
    Returned =>
        /\ chatResp.status = 200
        /\ "response" \in chatResp.keys
        /\ calls = <<>> => "tool_results" \notin chatResp.keys
        /\ (Len(calls) = 1 /\ calls[1].name \in Registry) =>
              /\ "tool_results" \in chatResp.keys
              /\ Len(chatResp.tool_results) = 1
              /\ chatResp.tool_results[1].function = calls[1].name
C1_Witness ==
    /\ Returned
    /\ Len(calls) = 1
    /\ calls[1].name = "list_shared_files"
    /\ Len(chatResp.tool_results) = 1

\* C2: a download of N that follows an upload of B under N, no other
\* upload of that file overlapping or intervening, returns 200 with exactly
\* B, and a listing then holds the entry (N, Len(B)), whatever the file held
\* before: for every name N a client may send.
C2_RoundTrip ==
    [][\A f \in Paths :
          settled[f].ok =>
             /\ download_file(settled[f].given) =>
                   obs'.status = 200 /\ obs'.body = settled[f].body
             /\ list_files =>
                   <<settled[f].given, Len(settled[f].body)>> \in obs'.entries]_vars
\* The same of the names that are one path segment, which holds: the body
\* read back replaces the old content, longer or not.
RoundTripPlainNames ==
    [][\A f \in Paths :
          (settled[f].ok /\ settled[f].given \in Names) =>
             /\ download_file(settled[f].given) =>
                   obs'.status = 200 /\ obs'.body = settled[f].body
             /\ list_files =>
                   <<settled[f].given, Len(settled[f].body)>> \in obs'.entries]_vars
RoundTripPlainWitness ==
    /\ obs.kind = "download"
    /\ obs.name = "a"
    /\ settled["a"].ok
    /\ obs.body = <<1>>
    /\ settled["a"].body = <<1>>
    /\ upl["u1"].pc = "done"

\* C3: once two uploads of one name have both written and closed the file,
\* the file holds exactly the body of one of them.
C3_LastWriteWins ==
    \A p \in UploadProcs, q \in UploadProcs :
        (/\ p # q
         /\ upl[p].pc = "written"
         /\ upl[q].pc = "written"
         /\ upl[p].name = upl[q].name) =>
            files[upl[p].name].data \in {upl[p].body, upl[q].body}

\* C4: the answer of a chat request on the tool path, and of an upload, is
\* the one its inputs give, delivered notification or not.
C4_HookNeverShows ==
    /\ (cpc = "done" /\ chatHook.outcome # "none") =>
          /\ chatResp = ToolResponse(final, results)
          /\ final # Malformed => chatResp.status = 200
    /\ \A p \in UploadProcs :
          (upl[p].pc = "done" /\ upl[p].hook # "none") => upl[p].status = 200
C4_Witness ==
    /\ cpc = "done"
    /\ chatHook.outcome = "fail"
    /\ chatResp.status = 200
    /\ chatResp.tool_results # <<>>
    /\ upl["u1"].pc = "done"
    /\ upl["u1"].hook = "fail"
    /\ upl["u1"].status = 200

\* C5: start_container and stop_container of a name the runtime does not
\* know answer "Errore" and never raise, and leave the containers alone; a
\* chat request whose reply is that one call has one result, the error, and
\* returns 200 with it whenever the model answers the second call.
C5_UnknownContainer ==
    /\ \A i \in 1..Len(results) :
          Unknown(calls[i]) => results[i].result = Text("Errore", calls[i].arg)
    /\ failedAt = "dispatch" => ~Unknown(calls[Len(results) + 1])
    /\ (Len(calls) = 1 /\ Unknown(calls[1])) =>
          /\ containers = snap
          /\ LoopDone =>
                results = <<Entry(calls[1].name, Text("Errore", calls[1].arg))>>
          /\ cpc = "done" =>
                /\ failedAt \in {"none", "model2", "compose"}
                /\ failedAt = "none" =>
                      chatResp.status = 200 /\ chatResp.tool_results = results
C5_Witness ==
    /\ Returned
    /\ calls = <<Call("stop_container", "db")>>
    /\ chatResp.status = 200
    /\ chatResp.tool_results[1].result.kind = "Errore"

\* The entry of an unknown name is the literal, and the call that raised is
\* never an unknown name.
C6_Inv ==
    /\ \A i \in 1..Len(results) :
          calls[i].name \notin Registry =>
             results[i] = Entry(calls[i].name, Text("Funzione non trovata", ""))
    /\ failedAt = "dispatch" => calls[Len(results) + 1].name \in Registry
    /\ (Returned /\ calls # <<>>) =>
          chatResp.status = 200 /\ Len(chatResp.tool_results) = Len(calls)
C6_Step ==
    (/\ cpc = "dispatch"
     /\ calls[Len(results) + 1].name \notin Registry
     /\ ChatDispatch) =>
        /\ containers' = containers
        /\ files' = files
        /\ Len(results') = Len(results) + 1
        /\ cpc' = IF Len(results') = Len(calls) THEN "model2" ELSE "dispatch"
\* C6: a call of a name outside the registry is answered with the literal
\* "Funzione non trovata", touches neither containers nor files, and does
\* not fail the request: the next call, if any, is executed next, and a
\* request that returns has an entry for every call.
C6_FunctionNotFound == []C6_Inv /\ [][C6_Step]_vars
C6_Witness ==
    /\ Returned
    /\ Len(calls) = 2
    /\ calls[1].name = "bogus"
    /\ calls[2] = Call("start_container", "web")
    /\ chatResp.tool_results[1].result.kind = "Funzione non trovata"
    /\ chatResp.tool_results[2].result.kind = "avviato"

C8_Sequential ==
    /\ Len(results) <= Len(calls)
    /\ Replay(1, snap)
    /\ LoopDone => Len(results) = Len(calls)
    /\ (Returned /\ calls # <<>>) => chatResp.tool_results = results
C8_Witness ==
    /\ Returned
    /\ snap["web"] = "running"
    /\ calls = <<Call("stop_container", "web"), Call("list_containers", Missing)>>
    /\ chatResp.tool_results[1].result.kind = "fermato"
    /\ chatResp.tool_results[2].result.list = {<<"web", "exited">>}
\* The same call twice: two entries.
C8_WitnessRepeat ==
    /\ Returned
    /\ Len(calls) = 2
    /\ calls[1] = calls[2]
    /\ Len(chatResp.tool_results) = 2

\* C9: an exception of the first model call, the dispatch or the second
\* model call ends the request with one 500 that carries no tool_results,
\* and no notification was sent; a notification that was sent carries the
\* results of all the calls.  What the executed calls did to the
\* containers stays.
C9_FailureIs500 ==
    /\ (cpc = "done" /\ failedAt # "none") =>
          /\ chatResp.status = 500
          /\ "tool_results" \notin chatResp.keys
          /\ chatResp.tool_results = <<>>
          /\ failedAt \in {"model1", "dispatch", "model2"} => chatHook = NoHook
          /\ Replay(1, snap)
    /\ cpc = "done" => (chatResp.status = 500 <=> failedAt # "none")
    /\ chatHook # NoHook =>
          Len(chatHook.results) = Len(calls) /\ chatHook.results = results
C9_Witness ==
    /\ cpc = "done"
    /\ failedAt = "dispatch"
    /\ calls = <<Call("stop_container", "web"), Call("start_container", Missing)>>
    /\ Len(results) = 1
    /\ snap["web"] = "running"
    /\ containers["web"] = "exited"
    /\ chatResp.status = 500
    /\ chatHook = NoHook

\* C10 as stated, its order: a notification has been fired only once the
\* response has been composed.
C10_NotifyAfterCompose == chatHook # NoHook => chatResp # NoResp

\* The handler's progress: its phase, then the calls answered.
Phase ==
    CASE cpc = "dispatch" -> 1
      [] cpc = "model2" -> 2
      [] cpc = "notify" -> 3
      [] cpc = "compose" -> 4
      [] OTHER -> 0
Rank == Phase * (MaxCalls + 2) + Len(results)
C10_Inv ==
    /\ modelCalls <= 2
    /\ (Returned /\ calls = <<>>) =>
          modelCalls = 1 /\ results = <<>> /\ chatHook = NoHook
    /\ (cpc = "done" /\ calls # <<>>) =>
          modelCalls = IF failedAt = "dispatch" THEN 1 ELSE 2
    /\ chatHook # NoHook =>
          /\ modelCalls = 2
          /\ Len(results) = Len(calls)
          /\ final \in FinalReplies
          /\ chatHook.results = results
    /\ cpc \in {"dispatch", "model2", "notify"} => chatHook = NoHook
    /\ cpc = "compose" => chatHook # NoHook /\ chatResp = NoResp
    /\ (Returned /\ calls # <<>>) => chatHook # NoHook
C10_Step ==
    (cpc' # cpc \/ results' # results) =>
        \/ cpc \in {"idle", "done"}
        \/ cpc' = "done"
        \/ Rank' > Rank
\* C10 as amended: one model call and nothing else when the reply holds no
\* tool call; two model calls when it does and the loop completes (one when
\* a dispatch raises); the notification follows the last tool execution and
\* the second model call and precedes the composition of the response; and
\* every step of a request moves it forward, so it ends.
C10_TwoPhase == []C10_Inv /\ [][C10_Step]_vars
C10_Witness ==
    /\ cpc = "compose"
    /\ chatHook.outcome = "ok"
    /\ chatResp = NoResp
    /\ final = "answer with tool_calls"
    /\ modelCalls = 2
    /\ Len(results) = 2

====
